---- MODULE Spec2Model ----
(***************************************************************************)
(* A model of src/dashboard/app.py: a PyShiny Express dashboard.  One      *)
(* reactive.calc (reactive_calc_combined) generates a temperature reading  *)
(* every UPDATE_INTERVAL_SECS, appends it to a deque(maxlen=DEQUE_SIZE)    *)
(* and returns (deque, DataFrame, latest entry); four renderers read that  *)
(* result.                                                                 *)
(*                                                                         *)
(* Numbers.  Temperatures are floats with one decimal in the program; the  *)
(* model counts tenths of a degree (-17.0 is -170).  Intermediate values   *)
(* of the conversions are counted in hundredths.  Wall-clock time is       *)
(* counted in 1/ClockHz seconds; a timestamp is the whole second that      *)
(* strftime("%Y-%m-%d %H:%M:%S") keeps (the fixed-width string orders as   *)
(* the number does).                                                       *)
(*                                                                         *)
(* Objects.  The deque and the DataFrame are mutable Python objects.  The  *)
(* variable deque is the content of the one deque object, df the content   *)
(* of the DataFrame object the last execution of the calc created; the     *)
(* tuple the calc returned (cached) holds references to them.              *)
(*                                                                         *)
(* Scheduling.  Shiny runs one session on one thread: a renderer executes  *)
(* when it is invalidated and its panel is shown, one at a time.  An       *)
(* output that is invalidated is shown as recalculating, so out keeps a    *)
(* value only for a renderer that is up to date.                           *)
(*                                                                         *)
(* Line 175 of app.py lacks the colon of its with statement; the model     *)
(* reads the file with that colon in place.                                *)
(***************************************************************************)
EXTENDS Integers, Sequences, FiniteSets, TLC

\* ------------------------------------------------------------- constants

UPDATE_INTERVAL_SECS == 3

DEQUE_SIZE == 5

\* display_temp: threshold = -17 (degrees Celsius)
threshold == -17

\* random.uniform(-18, -16), rounded to one decimal: -18.0 .. -16.0, in tenths
TempLo == -180

TempHi == -160

GeneratedTemps == TempLo..TempHi

\* ---------------------------------------------------------------- bounds

\* clock resolution: steps per second
ClockHz == 2

\* executions of reactive_calc_combined in a run
MaxTicks == 7

\* how late, in clock steps and summed over the run, the timer may fire
MaxDrift == 1

\* the readings the state machine draws: the threshold and the next value
\* above it (the conversions are checked over all of GeneratedTemps)
SampledTemps == {c \in GeneratedTemps : c - threshold * 10 \in {0, 1}}

\* ------------------------------------------------------------ vocabulary

Units == {"Celsius", "Fahrenheit", "Kelvin"}

Renderers == {"display_temp", "display_time", "display_df", "display_plot"}

Tabs == {"Live Data", "Temperature Readings Plot"}

\* the nav_panel a renderer is declared in
Panel(r) == IF r = "display_plot" THEN "Temperature Readings Plot" ELSE "Live Data"

\* a reference to the deque object reactive_value_wrapper holds
DequeRef == [obj |-> "deque"]

\* a reference to the DataFrame object an execution of the calc created
DfRef == [obj |-> "df"]

Last(s) == s[Len(s)]

RECURSIVE Sum(_, _)
Sum(f, n) == IF n = 0 THEN 0 ELSE f[n] + Sum(f, n - 1)

\* ------------------------------------------------- floating-point rounding

(***************************************************************************)
(* Rounding to one decimal of a double that lies at, or a fraction of an   *)
(* ulp below or above, the decimal h/100.  Unless h/100 is halfway between *)
(* two tenths the result is the nearest tenth.  Python's round() rounds    *)
(* the double's exact value, so at a halfway decimal it goes down when the *)
(* double is below it, up when above, and to the even tenth when the       *)
(* double is the decimal exactly.  numpy's round (pandas Series.round) is  *)
(* rint(x * 10) / 10: the same rule, applied to the double product x * 10. *)
(***************************************************************************)
RoundTenths(h, rel) ==
    LET f == h \div 10 IN
    IF h % 10 # 5 THEN (h + 5) \div 10
    ELSE IF rel = "below" THEN f
    ELSE IF rel = "above" THEN f + 1
    ELSE IF f % 2 = 0 THEN f ELSE f + 1

\* (c * 9/5) + 32 in hundredths: 18c + 3200 is even, never halfway between
\* two tenths, so the double's error cannot change the rounding
FahrenheitHundredths(c) == c * 18 + 3200

\* c + 273.15 in hundredths: always halfway between two tenths
KelvinHundredths(c) == c * 10 + 27315

(***************************************************************************)
(* IEEE-754 binary64 evaluation of c + 273.15 for c = -18.0 .. -16.0: the  *)
(* double sum is the decimal exactly at 256.25 and 256.75 (c = -16.9,      *)
(* -16.4) and below it otherwise (273.15 is stored as 273.1499999999999773)*)
(***************************************************************************)
KelvinSumRel(c) == IF c \in {-169, -164} THEN "exact" ELSE "below"

(***************************************************************************)
(* IEEE-754 binary64 evaluation of (c + 273.15) * 10: the product rounds   *)
(* to the decimal xxxx.5 exactly for these c, and stays below it otherwise *)
(***************************************************************************)
KelvinScaledRel(c) ==
    IF c \in {-180, -177, -176, -175, -172, -170, -169, -167, -165, -164, -162, -160}
    THEN "exact" ELSE "below"

\* a slip: 9/5 taken as an integer division
py_fahrenheit_intdiv(c) == c * (9 \div 5) + 320

\* round((temp_celsius * 9/5) + 32, 1)
py_fahrenheit(c) == RoundTenths(FahrenheitHundredths(c), "below")

\* round(temp_celsius + 273.15, 1)
py_kelvin(c) == RoundTenths(KelvinHundredths(c), KelvinSumRel(c))

\* (df['temp_celsius'] * 9 / 5 + 32).round(1)
np_fahrenheit(c) == RoundTenths(FahrenheitHundredths(c), "below")

\* (df['temp_celsius'] + 273.15).round(1)
np_kelvin(c) == RoundTenths(KelvinHundredths(c), KelvinScaledRel(c))

\* df['temp_celsius'].round(1): the value has one decimal already
np_celsius(c) == RoundTenths(c * 10, "exact")

(***************************************************************************)
(* str() of a float with one decimal, as an f-string prints it.  The only  *)
(* zero the program produces is IEEE -0.0 (round(-0.04..., 1) at -17.8 C), *)
(* which prints "-0.0".                                                    *)
(***************************************************************************)
float_str(v) ==
    LET a == IF v < 0 THEN -v ELSE v IN
    (IF v <= 0 THEN "-" ELSE "") \o ToString(a \div 10) \o "." \o ToString(a % 10)

\* datetime.now().strftime("%Y-%m-%d %H:%M:%S"): the sub-second part is dropped
strftime(t) == t \div ClockHz

\* ------------------------------------------------------------------ state

VARIABLES
    now,         \* wall clock, in 1/ClockHz seconds
    deque,       \* content of the deque object in reactive_value_wrapper
    calc_valid,  \* reactive_calc_combined holds a value that is not invalidated
    timer,       \* deadline of the pending invalidate_later, or NoTimer
    cached,      \* <<the tuple the last execution returned>>, <<>> before it
    df,          \* content of the DataFrame object of that tuple
    unit,        \* input.temp_unit
    tab,         \* the nav_panel shown
    dirty,       \* renderers invalidated and not yet re-executed
    out,         \* per renderer <<the value its last execution returned>>,
                 \* <<>> while it is invalidated
    n_ticks      \* executions of reactive_calc_combined so far

vars == <<now, deque, calc_valid, timer, cached, df, unit, tab, dirty, out, n_ticks>>

NoTimer == 0 - 1

Pending == <<>>

\* the object a reference of the returned tuple points to, as it is now
Deref(ref) == IF ref = DequeRef THEN deque ELSE IF ref = DfRef THEN df ELSE ref.val

\* ------------------------------------------------- reactive_calc_combined

\* a slip: the interval left out, the timer is due at once
invalidate_later_now(t) == t

\* reactive.invalidate_later(UPDATE_INTERVAL_SECS), called at time t
invalidate_later(t) == t + UPDATE_INTERVAL_SECS * ClockHz

\* lines 33-43; arrival is a history field (the entry's number in generation
\* order), not a key of the dictionary
new_dictionary_entry(c, t, k) ==
    [temp_celsius |-> c,
     temp_fahrenheit |-> py_fahrenheit(c),
     temp_kelvin |-> py_kelvin(c),
     timestamp |-> strftime(t),
     arrival |-> k]

\* a slip: the deque built without maxlen
append_unbounded(d, e) == Append(d, e)

\* a slip: appendleft for append
appendleft(d, e) ==
    IF Len(d) >= DEQUE_SIZE THEN <<e>> \o SubSeq(d, 1, DEQUE_SIZE - 1)
    ELSE <<e>> \o d

\* deque(maxlen=DEQUE_SIZE).append(e): a full deque drops its leftmost item
append(d, e) ==
    IF Len(d) >= DEQUE_SIZE THEN Append(SubSeq(d, Len(d) - DEQUE_SIZE + 2, Len(d)), e)
    ELSE Append(d, e)

\* reactive_value_wrapper.get(): the deque object itself
reactive_value_get == DequeRef

\* pd.DataFrame(deque_snapshot): a new object holding copies of the values
DataFrame(d) ==
    [rows |-> [i \in 1..Len(d) |->
                 [temp_celsius |-> d[i].temp_celsius,
                  temp_fahrenheit |-> d[i].temp_fahrenheit,
                  temp_kelvin |-> d[i].temp_kelvin,
                  timestamp |-> d[i].timestamp]],
     timestamp_dtype |-> "str",
     best_fit_line |-> <<>>]

\* the body of reactive_calc_combined, run at time now with the random draw c
reactive_calc_combined(c) ==
    LET e == new_dictionary_entry(c, now, n_ticks + 1)
        d == append(deque, e)
    IN [timer |-> invalidate_later(now),
        deque |-> d,
        df |-> DataFrame(d),
        result |-> [deque_snapshot |-> reactive_value_get,
                    df |-> DfRef,
                    latest_dictionary_entry |-> e]]

\* a slip: a plain function instead of a reactive.calc, run at every call
calc_runs_always == TRUE

\* @reactive.calc: the body runs only when no valid value is cached
calc_runs == ~calc_valid

\* --------------------------------------------------------------- renderers

unit_symbol(u) == IF u = "Celsius" THEN "°C" ELSE IF u = "Fahrenheit" THEN "°F" ELSE "K"

\* lines 116-129
temp_value(latest, u) ==
    IF u = "Celsius" THEN latest.temp_celsius
    ELSE IF u = "Fahrenheit" THEN latest.temp_fahrenheit
    ELSE latest.temp_kelvin

\* a slip: the displayed value compared with the Celsius threshold
temp_message_of_shown(latest, u) ==
    IF temp_value(latest, u) > threshold * 10 THEN "It is warmer than usual"
    ELSE "It is colder than usual"

\* lines 132-138
temp_message(latest, u) ==
    IF latest.temp_celsius > threshold * 10 THEN "It is warmer than usual"
    ELSE "It is colder than usual"

\* line 141
display_temp(latest, u) ==
    float_str(temp_value(latest, u)) \o unit_symbol(u) \o ". " \o temp_message(latest, u)

display_time(latest) == latest.timestamp

\* lines 165-171, on the DataFrame object d
display_df_frame(d) ==
    [d EXCEPT !.rows =
        [i \in 1..Len(d.rows) |->
            [temp_celsius |-> np_celsius(d.rows[i].temp_celsius),
             temp_fahrenheit |-> np_fahrenheit(d.rows[i].temp_celsius),
             temp_kelvin |-> np_kelvin(d.rows[i].temp_celsius),
             timestamp |-> d.rows[i].timestamp]]]

(***************************************************************************)
(* stats.linregress(x_vals, y_vals) with x_vals = 0 .. n-1, and line 200:  *)
(* the fitted value slope * x + intercept at each x, as the fraction       *)
(* num/den of tenths.  slope = (n Sxy - Sx Sy) / (n Sxx - Sx Sx); with one *)
(* point both are 0, and scipy's 0.0/0.0 is NaN: den = 0 stands for NaN.   *)
(***************************************************************************)
linregress_fit(y) ==
    LET n == Len(y)
        x == [i \in 1..n |-> i - 1]
        Sx == Sum(x, n)
        Sy == Sum(y, n)
        Sxy == Sum([i \in 1..n |-> x[i] * y[i]], n)
        Sxx == Sum([i \in 1..n |-> x[i] * x[i]], n)
        snum == n * Sxy - Sx * Sy
        sden == n * Sxx - Sx * Sx
    IN [i \in 1..n |-> [num |-> Sy * sden + snum * (n * x[i] - Sx), den |-> n * sden]]

\* lines 184 and 200, on the DataFrame object d
display_plot_frame(d) ==
    IF Len(d.rows) > 0
    THEN [d EXCEPT !.timestamp_dtype = "datetime64",
                   !.best_fit_line =
                       <<linregress_fit([i \in 1..Len(d.rows) |-> d.rows[i].temp_celsius])>>]
    ELSE d

\* lines 182-212: the figure; with an empty frame fig is never assigned
display_plot_fig(d) ==
    IF Len(d.rows) > 0
    THEN [scatter |-> [i \in 1..Len(d.rows) |->
                          <<d.rows[i].timestamp, d.rows[i].temp_celsius>>],
          regression_line |-> display_plot_frame(d).best_fit_line[1]]
    ELSE [error |-> "UnboundLocalError"]

\* what renderer r does to the DataFrame object of the tuple it received
render_frame(r, d) ==
    IF r = "display_df" THEN display_df_frame(d)
    ELSE IF r = "display_plot" THEN display_plot_frame(d)
    ELSE d

\* what renderer r returns, given the tuple's DataFrame and latest entry
render_value(r, d, latest) ==
    IF r = "display_temp" THEN [text |-> display_temp(latest, unit)]
    ELSE IF r = "display_time" THEN [text |-> display_time(latest)]
    ELSE IF r = "display_df" THEN [grid |-> display_df_frame(d)]
    ELSE display_plot_fig(d)

\* ----------------------------------------------------------------- actions

Init ==
    /\ now = 0
    /\ deque = <<>>
    /\ calc_valid = FALSE
    /\ timer = NoTimer
    /\ cached = <<>>
    /\ df = DataFrame(<<>>)
    /\ unit = "Celsius"
    /\ tab = "Live Data"
    /\ dirty = Renderers
    /\ out = [r \in Renderers |-> Pending]
    /\ n_ticks = 0

(***************************************************************************)
(* An invalidated renderer of the visible panel executes.  It calls        *)
(* reactive_calc_combined(), which runs its body if it holds no valid      *)
(* value and returns the cached tuple otherwise, and then does its own     *)
(* work on what the tuple refers to.                                       *)
(***************************************************************************)
Render(r) ==
    /\ r \in dirty
    /\ Panel(r) = tab
    /\ \E c \in (IF calc_runs THEN SampledTemps ELSE {TempLo}) :
         LET run == reactive_calc_combined(c)
             res == IF calc_runs THEN run.result ELSE cached[1]
             frame == IF calc_runs THEN run.df ELSE df
         IN /\ deque' = (IF calc_runs THEN run.deque ELSE deque)
            /\ timer' = (IF calc_runs THEN run.timer ELSE timer)
            /\ n_ticks' = (IF calc_runs THEN n_ticks + 1 ELSE n_ticks)
            /\ cached' = <<res>>
            /\ calc_valid' = TRUE
            /\ df' = render_frame(r, frame)
            /\ out' = [out EXCEPT ![r] =
                          <<render_value(r, frame, res.latest_dictionary_entry)>>]
    /\ dirty' = dirty \ {r}
    /\ UNCHANGED <<now, unit, tab>>

(***************************************************************************)
(* The invalidate_later timer fires, at its deadline or later: the calc is *)
(* invalidated, and with it every renderer that read it.                   *)
(***************************************************************************)
TimerFire ==
    /\ timer # NoTimer
    /\ n_ticks < MaxTicks
    /\ \E t \in timer..(n_ticks * UPDATE_INTERVAL_SECS * ClockHz + MaxDrift) :
         /\ t >= now
         /\ now' = t
    /\ calc_valid' = FALSE
    /\ timer' = NoTimer
    /\ dirty' = Renderers
    /\ out' = [r \in Renderers |-> Pending]
    /\ UNCHANGED <<deque, cached, df, unit, tab, n_ticks>>

\* the user picks another radio button: display_temp read input.temp_unit
SetUnit(u) ==
    /\ u # unit
    /\ unit' = u
    /\ dirty' = dirty \cup {"display_temp"}
    /\ out' = [out EXCEPT !["display_temp"] = Pending]
    /\ UNCHANGED <<now, deque, calc_valid, timer, cached, df, tab, n_ticks>>

\* the user shows the other nav_panel
SwitchTab(t) ==
    /\ t # tab
    /\ tab' = t
    /\ UNCHANGED <<now, deque, calc_valid, timer, cached, df, unit, dirty, out, n_ticks>>

Next ==
    \/ \E r \in Renderers : Render(r)
    \/ TimerFire
    \/ \E u \in Units : SetUnit(u)
    \/ \E t \in Tabs : SwitchTab(t)

Spec == Init /\ [][Next]_vars

\* ------------------------------------------------------------ properties

Min(a, b) == IF a < b THEN a ELSE b

Abs(a) == IF a < 0 THEN 0 - a ELSE a

\* the value the reference ref points to after the step
DerefNext(ref) == IF ref = DequeRef THEN deque' ELSE IF ref = DfRef THEN df' ELSE ref.val

\* the step is an execution of renderer r
RenderStep(r) == r \in dirty /\ r \notin dirty'

\* the exact conversion of c tenths Celsius to unit u, in hundredths:
\* F = c * 9/5 + 32, K = c + 273.15
ExactHundredths(c, u) ==
    IF u = "Celsius" THEN 10 * c
    ELSE IF u = "Fahrenheit" THEN (10 * c * 9) \div 5 + 3200
    ELSE 10 * c + 27315

\* v tenths is a one-decimal rounding of h hundredths
IsRounding(v, h) == Abs(10 * v - h) <= 5

MessageFor(c) ==
    IF c > -170 THEN "It is warmer than usual" ELSE "It is colder than usual"

SymbolFor(u) ==
    IF u = "Celsius" THEN "°C" ELSE IF u = "Fahrenheit" THEN "°F" ELSE "K"

(***************************************************************************)
(* C1.  After n executions of reactive_calc_combined the deque holds       *)
(* exactly the min(n, DEQUE_SIZE) most recently generated readings, oldest *)
(* first: its length is min(n, 5), never more than 5, its items are the    *)
(* readings numbered n - len + 1 .. n in that order, the newest being the  *)
(* entry the last execution generated; after 7 pushes it holds 3,4,5,6,7.  *)
(***************************************************************************)
C1_BoundedFifo ==
    /\ Len(deque) = Min(n_ticks, DEQUE_SIZE)
    /\ Len(deque) <= 5
    /\ \A i \in 1..Len(deque) : deque[i].arrival = n_ticks - Len(deque) + i
    /\ n_ticks > 0 => Last(deque) = cached[1].latest_dictionary_entry
    /\ n_ticks = 7 => [i \in 1..Len(deque) |-> deque[i].arrival] = <<3, 4, 5, 6, 7>>

C1_Witness == n_ticks = 7 /\ Len(deque) = 5 /\ deque[1].arrival = 3

(***************************************************************************)
(* C2.  The history value (deque_snapshot) an execution of                 *)
(* reactive_calc_combined returned is never changed by a later step: what  *)
(* the returned reference shows stays the sequence it showed.              *)
(***************************************************************************)
C2_SnapshotNeverChanges ==
    [][cached # <<>> =>
         DerefNext(cached[1].deque_snapshot) = Deref(cached[1].deque_snapshot)]_vars

(***************************************************************************)
(* C3.  display_plot runs the regression and produces a best-fit line only *)
(* when the window holds at least 2 readings; with fewer it returns a      *)
(* "no trend" signal (a figure without a regression line).                 *)
(***************************************************************************)
C3_NoTrendBelowTwo ==
    out["display_plot"] # Pending =>
        LET fig == out["display_plot"][1] IN
        "regression_line" \in DOMAIN fig => Len(fig.scatter) >= 2

(***************************************************************************)
(* C4.  No renderer holds a mutable handle on shared state: an execution   *)
(* of a renderer changes neither the history (beyond the append of the     *)
(* tick it may trigger) nor what the tick's tuple shows to the other       *)
(* renderers (the DataFrame stays as the calc built it), and the table     *)
(* display_df returns is the one it computes from the frame as built,      *)
(* whether or not display_plot ran before it.                              *)
(***************************************************************************)
C4_ViewReadOnly ==
    [][\A r \in Renderers : RenderStep(r) =>
          /\ calc_valid => deque' = deque
          /\ df' = DataFrame(deque')
          /\ r = "display_df" =>
                out'[r][1].grid = display_df_frame(DataFrame(deque'))]_vars

(***************************************************************************)
(* C5.  The history and the latest reading change only in a step that      *)
(* executes reactive_calc_combined after a timer invalidation (or at the   *)
(* start), and then by exactly one appended reading; the calc loses its    *)
(* value only when the timer fires, at or after its deadline.  So a read   *)
(* served from the cached value, and a change of input.temp_unit, leave    *)
(* the history and the latest reading as they are.                         *)
(***************************************************************************)
C5_OnlyTickAppends ==
    [][/\ (deque' # deque \/ cached' # cached) =>
            /\ ~calc_valid /\ calc_valid'
            /\ n_ticks' = n_ticks + 1
            /\ Len(deque') = Min(Len(deque) + 1, DEQUE_SIZE)
            /\ Last(deque') = cached'[1].latest_dictionary_entry
            /\ \A i \in 1..(Len(deque') - 1) :
                  deque'[i] = deque[i + Len(deque) + 1 - Len(deque')]
       /\ (calc_valid /\ ~calc_valid') => (timer # NoTimer /\ now' >= timer)
       /\ (\E r \in Renderers : RenderStep(r) /\ calc_valid) =>
             (deque' = deque /\ cached' = cached)
       /\ unit' # unit => (deque' = deque /\ cached' = cached)]_vars

C5_Witness ==
    /\ n_ticks = 2
    /\ calc_valid
    /\ dirty \cap {"display_temp", "display_time", "display_df"} = {}
    /\ unit = "Kelvin"
    /\ Len(deque) = 2

(***************************************************************************)
(* C6.  For every reading the program can generate and every unit, the     *)
(* message display_temp gives is the same for the three units: warmer iff  *)
(* temp_celsius > -17.0, colder otherwise; and the text shown ends with    *)
(* the message of the latest reading whatever unit is selected.            *)
(***************************************************************************)
C6_MessageUnitInvariant ==
    /\ \A c \in GeneratedTemps : \A u \in Units :
          temp_message(new_dictionary_entry(c, now, 1), u) = MessageFor(c)
    /\ out["display_temp"] # Pending =>
          LET e == Last(deque) IN
          \E v \in {e.temp_celsius, e.temp_fahrenheit, e.temp_kelvin} :
          \E s \in {"°C", "°F", "K"} :
              out["display_temp"][1].text =
                  float_str(v) \o s \o ". " \o MessageFor(e.temp_celsius)

C6_Witness ==
    /\ unit = "Kelvin"
    /\ out["display_temp"] # Pending
    /\ Last(deque).temp_celsius = -169

(***************************************************************************)
(* C7.  display_temp returns "<value><unit-symbol>. <message>", the value  *)
(* being the latest reading's Celsius temperature converted to the         *)
(* selected unit (F = c*9/5+32, K = c+273.15) and rounded to one decimal;  *)
(* -17.0 C in Fahrenheit gives "1.4°F" and "It is colder than usual".      *)
(***************************************************************************)
C7_DisplayTemp ==
    /\ \A c \in GeneratedTemps : \A u \in Units :
          LET e == new_dictionary_entry(c, now, 1) IN
          \E v \in (ExactHundredths(c, u) - 5) \div 10 .. (ExactHundredths(c, u) + 14) \div 10 :
              /\ IsRounding(v, ExactHundredths(c, u))
              /\ display_temp(e, u) = float_str(v) \o SymbolFor(u) \o ". " \o MessageFor(c)
    /\ display_temp(new_dictionary_entry(-170, now, 1), "Fahrenheit")
          = "1.4°F. It is colder than usual"
    /\ out["display_temp"] # Pending =>
          \E v \in (ExactHundredths(Last(deque).temp_celsius, unit) - 5) \div 10 ..
                   (ExactHundredths(Last(deque).temp_celsius, unit) + 14) \div 10 :
              /\ IsRounding(v, ExactHundredths(Last(deque).temp_celsius, unit))
              /\ out["display_temp"][1].text =
                    float_str(v) \o SymbolFor(unit) \o ". "
                        \o MessageFor(Last(deque).temp_celsius)

C7_Witness == out["display_temp"] = <<[text |-> "1.4°F. It is colder than usual"]>>

(***************************************************************************)
(* C8.  Whenever the calc holds a value (so at every render after a tick), *)
(* the latest reading of its tuple is the newest item of the history the   *)
(* tuple shows, that history is not empty and is a completed append (the   *)
(* frame built from it has one row per item); a rendered output exists     *)
(* only then, and display_time shows the newest item's timestamp.          *)
(***************************************************************************)
C8_LatestIsNewest ==
    /\ calc_valid =>
          /\ cached # <<>>
          /\ Len(Deref(cached[1].deque_snapshot)) >= 1
          /\ cached[1].latest_dictionary_entry = Last(Deref(cached[1].deque_snapshot))
          /\ Len(Deref(cached[1].df).rows) = Len(Deref(cached[1].deque_snapshot))
    /\ \A r \in Renderers : out[r] # Pending => calc_valid
    /\ out["display_time"] # Pending =>
          out["display_time"][1].text = Last(deque).timestamp

C8_Witness == n_ticks = 6 /\ out["display_time"] # Pending /\ out["display_df"] # Pending

(***************************************************************************)
(* C9.  display_df yields one row per reading of the history, oldest to    *)
(* newest, whose Celsius value is the reading's and whose Fahrenheit and   *)
(* Kelvin values are one-decimal roundings of its conversions; the newest  *)
(* row's Fahrenheit and Kelvin values are those display_temp shows for the *)
(* latest reading (the entry's temp_fahrenheit and temp_kelvin).           *)
(***************************************************************************)
C9_TableMatchesReadings ==
    out["display_df"] # Pending =>
        LET g == out["display_df"][1].grid
            n == Len(deque)
        IN /\ Len(g.rows) = n
           /\ \A i \in 1..n :
                 /\ g.rows[i].temp_celsius = deque[i].temp_celsius
                 /\ g.rows[i].timestamp = deque[i].timestamp
                 /\ IsRounding(g.rows[i].temp_fahrenheit,
                               ExactHundredths(deque[i].temp_celsius, "Fahrenheit"))
                 /\ IsRounding(g.rows[i].temp_kelvin,
                               ExactHundredths(deque[i].temp_celsius, "Kelvin"))
           /\ g.rows[n].temp_fahrenheit = temp_value(Last(deque), "Fahrenheit")
           /\ g.rows[n].temp_kelvin = temp_value(Last(deque), "Kelvin")

(***************************************************************************)
(* C10.  With a clock that never goes backward and ticks driven only by    *)
(* the UPDATE_INTERVAL_SECS timer, the timestamps of the history are       *)
(* strictly increasing from oldest to newest: no reordering, no duplicate. *)
(***************************************************************************)
C10_TimestampsIncrease ==
    \A i \in 1..Len(deque) : \A j \in 1..Len(deque) :
        i < j => deque[i].timestamp < deque[j].timestamp

C10_Witness ==
    /\ n_ticks = 6
    /\ Len(deque) = DEQUE_SIZE
    /\ now % ClockHz # 0
    /\ deque[5].timestamp - deque[1].timestamp >= 4 * UPDATE_INTERVAL_SECS

====
